---- MODULE Spec2Model ----
(***************************************************************************)
(* The LIRC command dispatcher of homebridge-lirc-tv (src/src/lirc.ts).    *)
(*                                                                         *)
(* One step of the model is one turn of the Node.js event loop: the        *)
(* callback of a timer or of a socket event, or the caller's invocation of *)
(* sendCommands, together with every promise reaction (microtask) that     *)
(* callback sets off.  Promise reactions always run to completion before   *)
(* the next timer or socket callback, so they are part of the step.        *)
(***************************************************************************)
EXTENDS Integers, Sequences, FiniteSets, TLC

\* ------------------------------------------------------------- bounds

\* Promises created in one behaviour: a sendCommands call creates the
\* Promise.resolve() its chain starts from and one promise per token.
MaxPromises == 5

\* The same bound for the behaviours checked under fairness, where every
\* cycle of the state graph is searched.
MaxFairPromises == 4

\* Largest configured settle delay (the constructor's `delay`), in ms.
MaxDelay == 2

\* Calls of sendCommands in a behaviour that is about the text of one token.
MaxTextRuns == 1

\* SET requests HomeKit makes of the television accessory in one behaviour.
MaxRequests == 1

\* ------------------------------------------------------------- text

\* Text is a sequence of one-character strings.
DELAY_INDENTIFIER == <<"D", "E", "L", "A", "Y", "|">>

\* String.prototype.startsWith
startsWith(s, p) == Len(s) >= Len(p) /\ SubSeq(s, 1, Len(p)) = p

\* String.prototype.indexOf, 1-based, 0 when p does not occur in s
indexOf(s, p) ==
  LET hits == {i \in 1..(Len(s) - Len(p) + 1) : SubSeq(s, i, i + Len(p) - 1) = p}
  IN IF hits = {} THEN 0 ELSE CHOOSE i \in hits : \A j \in hits : i <= j

\* String.prototype.replace with a string pattern: the first occurrence only
replace(s, p, rep) ==
  LET i == indexOf(s, p)
  IN IF i = 0 THEN s
     ELSE SubSeq(s, 1, i - 1) \o rep \o SubSeq(s, i + Len(p), Len(s))

WhiteSpace == {" ", "\t", "\n", "\r"}

DecDigits == <<"0", "1", "2", "3", "4", "5", "6", "7", "8", "9">>

HexLower == <<"a", "b", "c", "d", "e", "f">>

HexUpper == <<"A", "B", "C", "D", "E", "F">>

\* The value of character c as a digit, -1 when it is none.
DigitVal(c) ==
  IF \E d \in 1..10 : DecDigits[d] = c
  THEN (CHOOSE d \in 1..10 : DecDigits[d] = c) - 1
  ELSE IF \E d \in 1..6 : HexLower[d] = c
  THEN (CHOOSE d \in 1..6 : HexLower[d] = c) + 9
  ELSE IF \E d \in 1..6 : HexUpper[d] = c
  THEN (CHOOSE d \in 1..6 : HexUpper[d] = c) + 9
  ELSE -1

IsDigit(c, radix) == DigitVal(c) >= 0 /\ DigitVal(c) < radix

RECURSIVE SkipWhiteSpace(_)
SkipWhiteSpace(s) ==
  IF s # <<>> /\ Head(s) \in WhiteSpace THEN SkipWhiteSpace(Tail(s)) ELSE s

\* Reads the longest run of radix digits at the front of s; acc is the value
\* read so far and n the number of digits read.
RECURSIVE ReadDigits(_, _, _, _)
ReadDigits(s, radix, acc, n) ==
  IF s # <<>> /\ IsDigit(Head(s), radix)
  THEN ReadDigits(Tail(s), radix, acc * radix + DigitVal(Head(s)), n + 1)
  ELSE [val |-> acc, digits |-> n]

NaN == [nan |-> TRUE, val |-> 0]

Num(v) == [nan |-> FALSE, val |-> v]

\* The global parseInt(string) called with no radix: leading white space is
\* skipped, a sign is read, a 0x or 0X prefix selects radix 16, the longest
\* prefix of digits is read and the rest of the text is ignored.
parseInt(str) ==
  LET s0 == SkipWhiteSpace(str)
      neg == s0 # <<>> /\ Head(s0) = "-"
      s1 == IF s0 # <<>> /\ Head(s0) \in {"+", "-"} THEN Tail(s0) ELSE s0
      hex == Len(s1) >= 2 /\ s1[1] = "0" /\ s1[2] \in {"x", "X"}
      radix == IF hex THEN 16 ELSE 10
      s2 == IF hex THEN SubSeq(s1, 3, Len(s1)) ELSE s1
      got == ReadDigits(s2, radix, 0, 0)
  IN IF got.digits = 0 THEN NaN
     ELSE Num(IF neg THEN 0 - got.val ELSE got.val)

\* ------------------------------------------------------------- inputs

\* The command tokens the model draws command lists from.
KEY_POWER == <<"K", "P">>

Tokens ==
  { KEY_POWER,
    DELAY_INDENTIFIER \o <<"2">>,
    DELAY_INDENTIFIER \o <<"x">> }

RECURSIVE SeqsUpTo(_, _)
SeqsUpTo(S, n) ==
  IF n = 0 THEN {<<>>}
  ELSE LET shorter == SeqsUpTo(S, n - 1)
       IN shorter \cup {Append(q, x) : q \in {p \in shorter : Len(p) = n - 1}, x \in S}

Remotes == {<<"t", "v">>}

\* Tokens and remotes for what depends on the text of a token alone: the
\* prefix at the front, elsewhere, in another case or cut short, and after
\* it decimal digits, a sign, white space, a hexadecimal literal, digits
\* followed by other text, and no digits at all.
TextTokens ==
  { KEY_POWER,
    <<"K">> \o DELAY_INDENTIFIER \o <<"5">>,
    <<" ">> \o DELAY_INDENTIFIER \o <<"5">>,
    <<"d", "e", "l", "a", "y", "|", "5">>,
    <<"D", "E", "L", "A", "Y", "5">>,
    DELAY_INDENTIFIER,
    DELAY_INDENTIFIER \o <<"x">>,
    DELAY_INDENTIFIER \o <<"0">>,
    DELAY_INDENTIFIER \o <<"1", "2">>,
    DELAY_INDENTIFIER \o <<"0", "1", "0">>,
    DELAY_INDENTIFIER \o <<"-", "5">>,
    DELAY_INDENTIFIER \o <<" ", "7">>,
    DELAY_INDENTIFIER \o <<"3", ".", "9">>,
    DELAY_INDENTIFIER \o <<"4", "m", "s">>,
    DELAY_INDENTIFIER \o <<"0", "x", "1", "0">>,
    DELAY_INDENTIFIER \o <<"2">> \o DELAY_INDENTIFIER \o <<"9">> }

TextRemotes == {<<"t", "v">>, <<"L", "G", " ", "1">>}

\* accessory.context.device: the configuration of the television accessory
\* (host, port, remote and delay are passed on to the controller).
KEY_MUTE == <<"K", "M">>

KEY_VOLUMEUP == <<"V", "+">>

KEY_VOLUMEDOWN == <<"V", "-">>

KEY_OK == <<"O", "K">>

KEY_UP == <<"U", "P">>

KEY_HDMI == <<"H", "D">>

device ==
  [powerOn |-> <<KEY_POWER>>,
   powerOff |-> <<KEY_POWER>>,
   inputs |-> << [command |-> <<KEY_HDMI>>], [command |-> <<KEY_HDMI, KEY_OK>>] >>,
   muteOn |-> <<KEY_MUTE>>,
   muteOff |-> <<KEY_MUTE>>,
   volumeUp |-> <<KEY_VOLUMEUP>>,
   volumeDown |-> <<KEY_VOLUMEDOWN>>,
   remoteKeys |-> << [type |-> 8, command |-> <<KEY_OK>>],
                     [type |-> 4, command |-> <<KEY_UP>>] >>]

DeviceTokens ==
  {KEY_POWER, KEY_MUTE, KEY_VOLUMEUP, KEY_VOLUMEDOWN, KEY_OK, KEY_UP, KEY_HDMI}

\* The RemoteKey values HomeKit sends: SELECT and ARROW_UP, which the device
\* maps, and PLAY_PAUSE, which it does not.
RemoteKeyValues == {4, 8, 11}

\* remoteKeys.forEach(remoteKey => mappedRemoteKeys[remoteKey.type] =
\* remoteKey.command), from the empty object.
RECURSIVE mapRemoteKeys(_, _)
mapRemoteKeys(remoteKeys, mapped) ==
  IF remoteKeys = <<>> THEN mapped
  ELSE LET remoteKey == Head(remoteKeys)
       IN mapRemoteKeys(Tail(remoteKeys),
            [type \in DOMAIN mapped \cup {remoteKey.type} |->
               IF type = remoteKey.type THEN remoteKey.command ELSE mapped[type]])

mappedRemoteKeys == mapRemoteKeys(device.remoteKeys, <<>>)

\* The two revisions of the accessory in the source tree: the television
\* accessory of src/unnamed/part_001 and the earlier one of
\* src/src/platformAccessory.ts, of which the model has setActive and
\* getActive.
Builds == {"part_001", "platformAccessory.ts"}

\* ------------------------------------------------------------- state

VARIABLES
  remote,   \* this.remote: the remote profile given to the constructor
  delay,    \* this.delay: the settle delay given to the constructor, in ms
  runs,     \* one record per sendCommands invocation, in call order
  timers,   \* every timer armed with setTimeout
  sockets,  \* every socket made with net.connect
  build,    \* the revision of the accessory that uses the controller
  states,   \* this.states of the accessory
  requests  \* the SET requests HomeKit has made, with the callbacks they got

vars == <<remote, delay, runs, timers, sockets, build, states, requests>>

\* The mutable part of the state, as the value the operations transform.
State ==
  [runs |-> runs, timers |-> timers, sockets |-> sockets,
   states |-> states, requests |-> requests]

Commit(st) ==
  /\ runs' = st.runs
  /\ timers' = st.timers
  /\ sockets' = st.sockets
  /\ states' = st.states
  /\ requests' = st.requests
  /\ UNCHANGED <<remote, delay, build>>

\* The timers and the sockets made for token i of run r.
TimersOf(st, r, i) == {t \in st.timers : t.run = r /\ t.tok = i}

SocketsOf(st, r, i) == {s \in st.sockets : s.run = r /\ s.tok = i}

WithTimer(st, old, new) == [st EXCEPT !.timers = (@ \ {old}) \cup {new}]

WithSocket(st, old, new) == [st EXCEPT !.sockets = (@ \ {old}) \cup {new}]

NoError == [code |-> "none", syscall |-> "none"]

\* The error object a socket reports, by the phase the socket is in: the
\* connection could not be established, or the request could not be sent.
ErrorIn(phase) ==
  IF phase = "connecting"
  THEN [code |-> "ECONNREFUSED", syscall |-> "connect"]
  ELSE [code |-> "EPIPE", syscall |-> "write"]

\* Node's timers: a timeout that is not a number in 1..TIMEOUT_MAX is set to 1.
TIMEOUT_MAX == 2147483647

TimeoutMs(after) ==
  IF ~after.nan /\ after.val >= 1 /\ after.val <= TIMEOUT_MAX THEN after.val ELSE 1

\* setTimeout(resolve, after) where resolve settles token i of run r; site
\* names the call: "delay" (the DELAY| branch) or "settle" (after a write).
setTimeout(st, r, i, site, after) ==
  [st EXCEPT !.timers = @ \cup
     {[run |-> r, tok |-> i, n |-> Cardinality(TimersOf(st, r, i)) + 1,
       site |-> site, after |-> after, remaining |-> TimeoutMs(after),
       fired |-> FALSE]}]

\* Time since the write of the socket of token i of run r was flushed, as
\* the transport sees it when the next connection is made: -2 when token i
\* made no socket, -1 when its write is not flushed yet.
WriteAgeOf(st, r, i) ==
  LET own == SocketsOf(st, r, i)
  IN IF own = {} THEN -2
     ELSE (CHOOSE s \in own : \A o \in own : s.n >= o.n).age

\* net.connect with the settle timer armed beside it and not in its listener:
\* the token is given up when the timer runs out, connected or not.
netConnectArmsTimer(st, r, i) ==
  setTimeout(
    [st EXCEPT !.sockets = @ \cup
       {[run |-> r, tok |-> i, n |-> Cardinality(SocketsOf(st, r, i)) + 1,
         state |-> "connecting", written |-> <<>>, ended |-> FALSE,
         errPhase |-> "none", age |-> -1,
         sincePrevWrite |-> WriteAgeOf(st, r, i - 1)]}],
    r, i, "settle", Num(delay))

\* net.connect({host, port}, listener): a new socket, connecting.
netConnect(st, r, i) ==
  [st EXCEPT !.sockets = @ \cup
     {[run |-> r, tok |-> i, n |-> Cardinality(SocketsOf(st, r, i)) + 1,
       state |-> "connecting", written |-> <<>>, ended |-> FALSE,
       errPhase |-> "none", age |-> -1,
       sincePrevWrite |-> WriteAgeOf(st, r, i - 1)]}]

\* The test of sendCommand: is key a delay directive?
IsDelayKey(key) == startsWith(key, DELAY_INDENTIFIER)

\* const delayTimeout = parseInt(key.replace(DELAY_INDENTIFIER, ''))
delayTimeoutOf(key) == parseInt(replace(key, DELAY_INDENTIFIER, <<>>))

\* delayTimeoutOf tabulated over the tokens of the model, so that it is
\* computed once for each token and not once for each state.
DelayTimeouts ==
  [key \in Tokens \cup TextTokens \cup DeviceTokens |-> delayTimeoutOf(key)]

\* sendCommand with the else lost: a delay directive is sent to LIRC too.
sendCommandFallsThrough(st, r, i) ==
  LET key == st.runs[r].keys[i]
      timed == setTimeout(st, r, i, "delay", DelayTimeouts[key])
  IN IF IsDelayKey(key) THEN netConnect(timed, r, i) ELSE netConnect(st, r, i)

\* sendCommand checking the delay it parsed: a delay directive whose text is
\* no number is rejected.
sendCommandChecksDelay(st, r, i) ==
  LET key == st.runs[r].keys[i]
  IN IF IsDelayKey(key)
     THEN IF DelayTimeouts[key].nan
          THEN [st EXCEPT !.runs[r].promise[i] = "rejected",
                          !.runs[r].outcomes =
                             Append(@, [result |-> "failure",
                                        error |-> [code |-> "ERR_INVALID_ARG_VALUE",
                                                   syscall |-> "none"]])]
          ELSE setTimeout(st, r, i, "delay", DelayTimeouts[key])
     ELSE netConnect(st, r, i)

\* sendCommand(key, resolve, reject) for token i of run r.
sendCommand(st, r, i) ==
  LET key == st.runs[r].keys[i]
  IN IF IsDelayKey(key)
     THEN LET delayTimeout == DelayTimeouts[key]
          IN setTimeout(st, r, i, "delay", delayTimeout)
     ELSE netConnect(st, r, i)

\* new Promise((resolve, reject) => this.sendCommand(key, resolve, reject))
newPromise(st, r, i) ==
  sendCommand([st EXCEPT !.runs[r].promise[i] = "pending",
                         !.runs[r].started = Append(@, i)], r, i)

\* callback(error) of SET request q; NoError stands for null.
callback(st, q, error) == [st EXCEPT !.requests[q].callbacks = Append(@, error)]

\* setActive's then() recording the state whatever came of the run.
setActiveThenUnchecked(st, q) == [st EXCEPT !.states.Active = st.requests[q].value]

\* The function setActive gives to then().
setActiveThen(st, q) ==
  callback([st EXCEPT !.states.Active = st.requests[q].value], q, NoError)

\* The function setActiveIdentifier gives to then().
setActiveIdentifierThen(st, q) ==
  callback([st EXCEPT !.states.ActiveIdentifier = st.requests[q].value], q, NoError)

\* The promise of the run of request q is fulfilled: the function the
\* handler gave to then() runs.
onFulfilled(st, q) ==
  IF st.requests[q].handler = "setActive" THEN setActiveThen(st, q)
  ELSE IF st.requests[q].handler = "setActiveIdentifier"
  THEN setActiveIdentifierThen(st, q)
  ELSE callback(st, q, NoError)

\* The promise of the run of request q is rejected: then() passes the
\* rejection on and the function the handler gave to catch() runs.
onRejected(st, q, error) == callback(st, q, error)

\* The SET request that run r was started for, 0 when the run was started by
\* another caller of the controller.
RequestOf(st, r) ==
  IF \E q \in 1..Len(st.requests) : st.requests[q].run = r
  THEN CHOOSE q \in 1..Len(st.requests) : st.requests[q].run = r
  ELSE 0

\* The promise sendCommands returned settles: the caller's reaction runs.
settleRun(st, r, result, error) ==
  LET settled == [st EXCEPT !.runs[r].outcomes =
                               Append(@, [result |-> result, error |-> error])]
      q == RequestOf(st, r)
  IN IF q = 0 THEN settled
     ELSE IF result = "success" THEN onFulfilled(settled, q)
     ELSE onRejected(settled, q, error)

\* thenNext with the end of the chain lost: the last promise never settles
\* the promise the caller holds.
thenNextNeverEnds(st, r, i) ==
  IF i < Len(st.runs[r].keys) THEN newPromise(st, r, i + 1) ELSE st

\* The reduce chain after token i (0: the initial Promise.resolve()) is
\* fulfilled: collector.then runs the next executor, or the chain ends.
thenNext(st, r, i) ==
  IF i < Len(st.runs[r].keys)
  THEN newPromise(st, r, i + 1)
  ELSE settleRun(st, r, "success", NoError)

\* resolve() of the promise of token i: a settled promise stays as it is.
resolve(st, r, i) ==
  IF st.runs[r].promise[i] # "pending" THEN st
  ELSE thenNext([st EXCEPT !.runs[r].promise[i] = "fulfilled"], r, i)

\* reject as a best-effort dispatcher would have it: the failure is recorded
\* and the chain goes on with the next token.
rejectAndContinue(st, r, i, error) ==
  IF st.runs[r].promise[i] # "pending" THEN st
  ELSE IF i < Len(st.runs[r].keys)
  THEN newPromise([st EXCEPT !.runs[r].promise[i] = "rejected"], r, i + 1)
  ELSE settleRun([st EXCEPT !.runs[r].promise[i] = "rejected"], r, "failure", error)

\* reject as a plain callback: it reports the failure whatever happened before.
rejectUnguarded(st, r, i, error) ==
  settleRun([st EXCEPT !.runs[r].promise[i] = "rejected"], r, "failure", error)

\* reject with the failure kept in the controller and not in the run: every
\* run that is under way ends with it.
rejectEveryRun(st, r, i, error) ==
  IF st.runs[r].promise[i] # "pending" THEN st
  ELSE [st EXCEPT
          !.runs = [q \in DOMAIN @ |->
                      IF @[q].outcomes # <<>> THEN @[q]
                      ELSE [@[q] EXCEPT
                              !.promise = [k \in DOMAIN @ |->
                                             IF @[k] = "pending" THEN "rejected"
                                             ELSE @[k]],
                              !.outcomes = <<[result |-> "failure",
                                              error |-> error]>>]]]

\* reject(error) of the promise of token i: every later then() of the chain
\* has no rejection handler, so the rejection reaches the returned promise.
reject(st, r, i, error) ==
  IF st.runs[r].promise[i] # "pending" THEN st
  ELSE settleRun([st EXCEPT !.runs[r].promise[i] = "rejected"], r, "failure", error)

\* sendCommands with reduce given no initial value: reduce of an empty array
\* throws a TypeError, and the first key would be taken for the collector.
sendCommandsNoInitialValue(st, keys) ==
  LET r == Len(st.runs) + 1
      run == [keys |-> keys, promise |-> [i \in 1..Len(keys) |-> "none"],
              started |-> <<>>, outcomes |-> <<>>]
      st1 == [st EXCEPT !.runs = Append(@, run)]
  IN IF keys = <<>>
     THEN settleRun(st1, r, "failure", [code |-> "TypeError", syscall |-> "none"])
     ELSE thenNext(st1, r, 0)

\* sendCommands behind a busy flag: while an earlier run is under way a new
\* run is turned away.
sendCommandsBusy(st, keys) ==
  LET r == Len(st.runs) + 1
      run == [keys |-> keys, promise |-> [i \in 1..Len(keys) |-> "none"],
              started |-> <<>>, outcomes |-> <<>>]
      st1 == [st EXCEPT !.runs = Append(@, run)]
  IN IF \E q \in 1..Len(st.runs) : st.runs[q].outcomes = <<>>
     THEN settleRun(st1, r, "failure", [code |-> "EBUSY", syscall |-> "none"])
     ELSE thenNext(st1, r, 0)

\* sendCommands remembering what it has sent: a list that was carried out
\* with success before is taken as done.
sendCommandsRemembering(st, keys) ==
  LET r == Len(st.runs) + 1
      run == [keys |-> keys, promise |-> [i \in 1..Len(keys) |-> "none"],
              started |-> <<>>, outcomes |-> <<>>]
      st1 == [st EXCEPT !.runs = Append(@, run)]
  IN IF \E q \in 1..Len(st.runs) :
          /\ st.runs[q].keys = keys
          /\ st.runs[q].outcomes # <<>>
          /\ st.runs[q].outcomes[1].result = "success"
     THEN settleRun(st1, r, "success", NoError)
     ELSE thenNext(st1, r, 0)

\* sendCommands(keys): keys.reduce(..., Promise.resolve())
sendCommands(st, keys) ==
  LET r == Len(st.runs) + 1
      run == [keys |-> keys, promise |-> [i \in 1..Len(keys) |-> "none"],
              started |-> <<>>, outcomes |-> <<>>]
  IN thenNext([st EXCEPT !.runs = Append(@, run)], r, 0)

\* ------------------------------------------------------------- accessory

\* HomeKit's SET request of a characteristic, as the handler receives it:
\* run is the run the handler is about to start, 0 when it starts none.
request(st, handler, value, run) ==
  [st EXCEPT !.requests = Append(@, [handler |-> handler, value |-> value,
                                     run |-> run, callbacks |-> <<>>])]

\* setActive recording the state when asked, before the run has ended.
setActiveOptimistic(st, value) ==
  LET asked == request(st, "setActive", value, Len(st.runs) + 1)
  IN sendCommands([asked EXCEPT !.states.Active = value],
                  IF value THEN device.powerOn ELSE device.powerOff)

\* setActive(value, callback).  The earlier revision ends with callback(null)
\* after the chain is built, and that call comes before any reaction of the
\* chain, reactions being run after the handler's own code.
setActive(st, value) ==
  LET q == Len(st.requests) + 1
      asked == request(st, "setActive", value, Len(st.runs) + 1)
      called == IF build = "platformAccessory.ts"
                THEN callback(asked, q, NoError)
                ELSE asked
  IN sendCommands(called, IF value THEN device.powerOn ELSE device.powerOff)

\* getActive(callback): the value given to the callback.
getActive(st) == st.states.Active

\* setActiveIdentifier(value, callback); Identifier i is input i, from 0.
setActiveIdentifier(st, value) ==
  LET thisInput == device.inputs[value + 1]
      asked == request(st, "setActiveIdentifier", value, Len(st.runs) + 1)
  IN sendCommands(asked, thisInput.command)

\* setMute(value, callback)
setMute(st, value) ==
  LET asked == request(st, "setMute", value, Len(st.runs) + 1)
  IN sendCommands(asked, IF value THEN device.muteOn ELSE device.muteOff)

\* setVolume(value, callback): VolumeSelector, 0 to increment, 1 to decrement
setVolume(st, value) ==
  LET asked == request(st, "setVolume", value, Len(st.runs) + 1)
  IN sendCommands(asked, IF value # 0 THEN device.volumeDown ELSE device.volumeUp)

NotConfigured == [code |-> "This RemoteKey has not been configured", syscall |-> "none"]

\* The RemoteKey handler looking the value up without asking whether it is
\* mapped: a key that is not mapped sends an empty list.
setRemoteKeyUnchecked(st, value) ==
  LET asked == request(st, "setRemoteKey", value, Len(st.runs) + 1)
  IN sendCommands(asked, IF value \in DOMAIN mappedRemoteKeys
                         THEN mappedRemoteKeys[value] ELSE <<>>)

\* The SET handler of RemoteKey.
setRemoteKey(st, value) ==
  IF value \in DOMAIN mappedRemoteKeys
  THEN sendCommands(request(st, "setRemoteKey", value, Len(st.runs) + 1),
                    mappedRemoteKeys[value])
  ELSE callback(request(st, "setRemoteKey", value, 0), Len(st.requests) + 1,
                NotConfigured)

\* The request line with the remote and the key in each other's place.
requestBodyKeyFirst(key) ==
  <<"S", "E", "N", "D", "_", "O", "N", "C", "E", " ">> \o key \o <<" ">> \o remote

\* The request line of key for the configured remote.
requestBody(key) ==
  <<"S", "E", "N", "D", "_", "O", "N", "C", "E", " ">> \o remote \o <<" ">> \o key

\* The connect listener resolving at once instead of arming the settle timer.
connectListenerNoSettle(st, s) ==
  LET key == st.runs[s.run].keys[s.tok]
      ended == [s EXCEPT !.written = Append(@, requestBody(key) \o <<"\r", "\n">>),
                         !.state = "writing", !.ended = TRUE]
  IN resolve(WithSocket(st, s, ended), s.run, s.tok)

\* The connect listener without client.end(): the socket is left open.
connectListenerNoEnd(st, s) ==
  LET key == st.runs[s.run].keys[s.tok]
      wrote == [s EXCEPT !.written = Append(@, requestBody(key) \o <<"\r", "\n">>),
                         !.state = "writing"]
  IN setTimeout(WithSocket(st, s, wrote), s.run, s.tok, "settle", Num(delay))

\* The listener given to net.connect, run when socket s is connected.
connectListener(st, s) ==
  LET key == st.runs[s.run].keys[s.tok]
      wrote == [s EXCEPT !.written = Append(@, requestBody(key) \o <<"\r", "\n">>),
                         !.state = "writing"]
      ended == [wrote EXCEPT !.ended = TRUE]
  IN setTimeout(WithSocket(st, s, ended), s.run, s.tok, "settle", Num(delay))

\* The error listener calling reject() with no argument.
errorListenerDropsError(st, s, error) == reject(st, s.run, s.tok, NoError)

\* client.on('error', ...) of socket s.
errorListener(st, s, error) == reject(st, s.run, s.tok, error)

\* ------------------------------------------------------------- steps

\* The accessory as constructed.
Constructed ==
  /\ states = [Active |-> FALSE, ActiveIdentifier |-> 0]
  /\ requests = <<>>

\* The controller on its own: the accessory makes no request.
Unused == build = "part_001" /\ Constructed

Init ==
  /\ remote \in Remotes
  /\ delay \in {0, MaxDelay}
  /\ runs = <<>>
  /\ timers = {}
  /\ sockets = {}
  /\ Unused

RECURSIVE PromisesOf(_)
PromisesOf(rs) ==
  IF rs = <<>> THEN 0 ELSE 1 + Len(Head(rs).keys) + PromisesOf(Tail(rs))

\* The lists of at most n tokens, tabulated so that they are made once.
ListsUpTo == [n \in 0..MaxPromises |-> SeqsUpTo(Tokens, n)]

\* The command lists a further call can be given within max promises.
CommandLists(max) == ListsUpTo[max - PromisesOf(runs) - 1]

\* A collaborator calls controller.sendCommands(keys).
SendCommands(keys) == Commit(sendCommands(State, keys))

\* The timer phase of the event loop runs the callback of a due timer.
TimerFires(t) ==
  /\ ~t.fired
  /\ t.remaining = 0
  /\ Commit(resolve(WithTimer(State, t, [t EXCEPT !.fired = TRUE]), t.run, t.tok))

\* The connection of socket s is established.
Connected(s) ==
  /\ s.state = "connecting"
  /\ Commit(connectListener(State, s))

\* The request written on socket s has been handed to the network.
WriteFlushed(s) ==
  /\ s.state = "writing"
  /\ Commit(WithSocket(State, s, [s EXCEPT !.state = "flushed", !.age = 0]))

\* Socket s reports a transport error, while connecting or while its request
\* is not flushed yet; an errored socket is destroyed.
SocketError(s) ==
  /\ s.state \in {"connecting", "writing"}
  /\ LET failed == [s EXCEPT !.state = "errored", !.errPhase = s.state]
     IN Commit(errorListener(WithSocket(State, s, failed), failed, ErrorIn(s.state)))

\* The age of a flushed write is measured until the run's next token starts
\* or the run ends, and no further than the settle delay it is compared with.
Ageing(s) ==
  /\ s.age >= 0
  /\ s.age < delay
  /\ runs[s.run].outcomes = <<>>
  /\ runs[s.run].started[Len(runs[s.run].started)] = s.tok

\* One millisecond passes.
Tick ==
  /\ \/ \E t \in timers : ~t.fired /\ t.remaining > 0
     \/ \E s \in sockets : Ageing(s)
  /\ timers' = {IF t.remaining > 0 THEN [t EXCEPT !.remaining = @ - 1] ELSE t :
                  t \in timers}
  /\ sockets' = {IF Ageing(s) THEN [s EXCEPT !.age = @ + 1] ELSE s : s \in sockets}
  /\ UNCHANGED <<remote, delay, runs, build, states, requests>>

\* A step of the event loop, in a behaviour of at most max promises.
Step(max) ==
  \/ /\ PromisesOf(runs) < max
     /\ \E keys \in CommandLists(max) : SendCommands(keys)
  \/ \E t \in timers : TimerFires(t)
  \/ \E s \in sockets : Connected(s)
  \/ \E s \in sockets : WriteFlushed(s)
  \/ \E s \in sockets : SocketError(s)
  \/ Tick

Next == Step(MaxPromises)

Spec == Init /\ [][Next]_vars

\* The event loop runs every due timer callback, time does not stop while a
\* timer is pending, and (the premise of the success claim) a connection
\* attempt that does not fail is established.
FairSpec ==
  /\ Init
  /\ [][Step(MaxFairPromises)]_vars
  /\ WF_vars(Tick)
  /\ WF_vars(\E t \in timers : TimerFires(t))
  /\ WF_vars(\E s \in sockets : Connected(s))

\* The dispatcher given one token at a time, over the tokens and the remotes
\* of TextTokens and TextRemotes.
TextInit ==
  /\ remote \in TextRemotes
  /\ delay \in {0, MaxDelay}
  /\ runs = <<>>
  /\ timers = {}
  /\ sockets = {}
  /\ Unused

TextNext ==
  \/ /\ Len(runs) < MaxTextRuns
     /\ \E key \in TextTokens : SendCommands(<<key>>)
  \/ \E t \in timers : TimerFires(t)
  \/ \E s \in sockets : Connected(s)
  \/ \E s \in sockets : WriteFlushed(s)
  \/ \E s \in sockets : SocketError(s)
  \/ Tick

TextSpec == TextInit /\ [][TextNext]_vars

\* The television accessory: every call of the controller is made by a SET
\* handler.
AccessoryInit ==
  /\ build \in Builds
  /\ remote \in Remotes
  /\ delay \in {0, MaxDelay}
  /\ runs = <<>>
  /\ timers = {}
  /\ sockets = {}
  /\ Constructed

SetActive(value) == Commit(setActive(State, value))

SetActiveIdentifier(value) == Commit(setActiveIdentifier(State, value))

SetMute(value) == Commit(setMute(State, value))

SetVolume(value) == Commit(setVolume(State, value))

SetRemoteKey(value) == Commit(setRemoteKey(State, value))

AccessoryNext ==
  \/ /\ Len(requests) < MaxRequests
     /\ \E value \in BOOLEAN : SetActive(value)
  \/ /\ Len(requests) < MaxRequests
     /\ build = "part_001"
     /\ \E value \in 0..(Len(device.inputs) - 1) : SetActiveIdentifier(value)
  \/ /\ Len(requests) < MaxRequests
     /\ build = "part_001"
     /\ \E value \in BOOLEAN : SetMute(value)
  \/ /\ Len(requests) < MaxRequests
     /\ build = "part_001"
     /\ \E value \in {0, 1} : SetVolume(value)
  \/ /\ Len(requests) < MaxRequests
     /\ build = "part_001"
     /\ \E value \in RemoteKeyValues : SetRemoteKey(value)
  \/ \E t \in timers : TimerFires(t)
  \/ \E s \in sockets : Connected(s)
  \/ \E s \in sockets : WriteFlushed(s)
  \/ \E s \in sockets : SocketError(s)
  \/ Tick

AccessorySpec == AccessoryInit /\ [][AccessoryNext]_vars

\* ------------------------------------------------------------- properties

\* What the properties read of run r.
Started(r) == {runs[r].started[k] : k \in 1..Len(runs[r].started)}

Succeeded(r) ==
  /\ r \in DOMAIN runs
  /\ runs[r].outcomes # <<>>
  /\ runs[r].outcomes[1].result = "success"

Failed(r) ==
  /\ r \in DOMAIN runs
  /\ runs[r].outcomes # <<>>
  /\ runs[r].outcomes[1].result = "failure"

\* The wait of token i of run r has elapsed: the timer of its kind, the delay
\* timer of a delay directive or the settle timer of a command, has run out
\* and its callback has been run.
WaitElapsed(r, i) ==
  \E t \in TimersOf(State, r, i) :
    /\ t.fired
    /\ t.remaining = 0
    /\ t.site = IF IsDelayKey(runs[r].keys[i]) THEN "delay" ELSE "settle"

\* C1: within one run the tokens are started in list order, each once; a
\* token that is not started has no timer and no socket; and token N+1 is
\* started only when the wait of token N (delay timer or settle timer) has
\* elapsed.
C1_TokensInOrder ==
  \A r \in 1..Len(runs) :
    /\ runs[r].started = [k \in 1..Len(runs[r].started) |-> k]
    /\ \A i \in 1..Len(runs[r].keys) :
         i \notin Started(r) => TimersOf(State, r, i) = {} /\ SocketsOf(State, r, i) = {}
    /\ \A i \in Started(r) : i > 1 => WaitElapsed(r, i - 1)

\* A run has started its third token, after a command and a delay directive.
C1_Witness ==
  \E r \in 1..Len(runs) :
    /\ 3 \in Started(r)
    /\ ~IsDelayKey(runs[r].keys[1])
    /\ IsDelayKey(runs[r].keys[2])

\* C2: when the connection attempt of token k fails, the run has ended in
\* failure, the tokens started are exactly 1..k in order, the tokens carried
\* out are exactly those before k, and no later token has a timer or a socket.
C2_FailFast ==
  \A s \in sockets :
    s.errPhase = "connecting" =>
      /\ Len(runs[s.run].outcomes) = 1
      /\ Failed(s.run)
      /\ runs[s.run].started = [k \in 1..s.tok |-> k]
      /\ \A i \in 1..Len(runs[s.run].keys) :
           /\ (runs[s.run].promise[i] = "fulfilled") <=> (i < s.tok)
           /\ i < s.tok => WaitElapsed(s.run, i)
           /\ i > s.tok =>
                TimersOf(State, s.run, i) = {} /\ SocketsOf(State, s.run, i) = {}

\* The second token of a longer list failed to connect.
C2_Witness ==
  \E s \in sockets :
    s.errPhase = "connecting" /\ s.tok = 2 /\ Len(runs[s.run].keys) > 2

\* C3: a transport error of the socket of token k, reported before the write
\* is acknowledged, makes the run fail with no later token started.
C3_ErrorBeforeAckAborts ==
  \A s \in sockets :
    s.errPhase \in {"connecting", "writing"} =>
      /\ Failed(s.run)
      /\ Len(runs[s.run].started) = s.tok

C6_SettleAfterWriteCompletion ==
  \A s \in sockets : s.sincePrevWrite # -2 => s.sincePrevWrite >= delay

\* The run r had no transport error.
NoTransportError(r) == \A s \in sockets : s.run = r => s.state # "errored"

\* C7: a run whose connections are all established and whose sockets report
\* no error ends in success, and success comes only after the wait of every
\* token, the last one included, has elapsed.
C7_SuccessAfterLastWait ==
  /\ \A r \in 1..MaxPromises :
       [](r \in DOMAIN runs => <>(Succeeded(r) \/ ~NoTransportError(r)))
  /\ [](\A r \in 1..Len(runs) :
          Succeeded(r) =>
            /\ \A i \in 1..Len(runs[r].keys) :
                 runs[r].promise[i] = "fulfilled" /\ WaitElapsed(r, i)
            /\ Len(runs[r].outcomes) = 1)

\* A run of two tokens, a command among them, has succeeded without an error.
C7_Witness ==
  \E r \in 1..Len(runs) :
    /\ Succeeded(r)
    /\ NoTransportError(r)
    /\ Len(runs[r].keys) >= 2
    /\ \E i \in 1..Len(runs[r].keys) : ~IsDelayKey(runs[r].keys[i])

\* C8: a run of the empty list has succeeded, with no socket and no timer.
C8_EmptyListSucceeds ==
  \A r \in 1..Len(runs) :
    runs[r].keys = <<>> =>
      /\ runs[r].outcomes = <<[result |-> "success", error |-> NoError]>>
      /\ runs[r].started = <<>>
      /\ \A t \in timers : t.run # r
      /\ \A s \in sockets : s.run # r

\* An empty list was run while another run was under way.
C8_Witness ==
  \E r \in 1..Len(runs) :
    /\ runs[r].keys = <<>>
    /\ Succeeded(r)
    /\ \E q \in 1..Len(runs) : runs[q].started # <<>>

\* C9: the sockets of a run are as many as the commands it started; a delay
\* directive has no socket and no timer but its one delay timer; a command
\* has exactly one socket and no timer but at most one settle timer.
C9_OneConnectionPerCommand ==
  \A r \in 1..Len(runs) :
    /\ Cardinality({s \in sockets : s.run = r}) =
         Cardinality({i \in Started(r) : ~IsDelayKey(runs[r].keys[i])})
    /\ \A i \in Started(r) :
         IF IsDelayKey(runs[r].keys[i])
         THEN /\ SocketsOf(State, r, i) = {}
              /\ Cardinality(TimersOf(State, r, i)) = 1
              /\ \A t \in TimersOf(State, r, i) : t.site = "delay"
         ELSE /\ Cardinality(SocketsOf(State, r, i)) = 1
              /\ Cardinality(TimersOf(State, r, i)) <= 1
              /\ \A t \in TimersOf(State, r, i) : t.site = "settle"

\* A run has carried out a delay directive and a command, timers run out.
C9_Witness ==
  \E r \in 1..Len(runs) :
    \E i, j \in Started(r) :
      /\ IsDelayKey(runs[r].keys[i])
      /\ ~IsDelayKey(runs[r].keys[j])
      /\ WaitElapsed(r, i)
      /\ WaitElapsed(r, j)

\* C10: on every socket at most one request is written, the request of the
\* token the socket was made for; the socket is ended with that write and not
\* before it.
C10_SingleUseConnection ==
  \A s \in sockets :
    /\ Len(s.written) <= 1
    /\ s.ended <=> (s.written # <<>>)
    /\ s.written # <<>> =>
         s.written[1] = requestBody(runs[s.run].keys[s.tok]) \o <<"\r", "\n">>
    /\ s.state = "connecting" => s.written = <<>>

\* Two commands of one run have each written on a socket of their own.
C10_Witness ==
  \E s1, s2 \in sockets :
    /\ s1.run = s2.run
    /\ s1.tok # s2.tok
    /\ s1.written # <<>>
    /\ s2.written # <<>>

\* The requests run r has written, each on the socket of its token.
WrittenOf(r) == {s \in sockets : s.run = r /\ s.written # <<>>}

\* The settle timer armed when the request of socket s was written.
SettleTimerOf(s) ==
  {t \in timers : t.run = s.run /\ t.tok = s.tok /\ t.site = "settle"}

\* C11: separate runs are not serialized.  A run is never kept waiting for
\* another one: whatever the other runs are doing, the first token of a run
\* is started by the call itself, and a run succeeds only with every token
\* started.  Nothing orders the requests of different runs (the witness is
\* an execution where they interleave).
C11_RunsNotSerialized ==
  \A r \in 1..Len(runs) :
    /\ runs[r].keys # <<>> =>
         /\ 1 \in Started(r)
         /\ TimersOf(State, r, 1) \cup SocketsOf(State, r, 1) # {}
    /\ Succeeded(r) => Len(runs[r].started) = Len(runs[r].keys)

\* A request of one run was written between two requests of another.  Every
\* settle timer is armed with the same time when its request is written, and
\* all timers run down together, so of two settle timers the one with less
\* time left was armed first: here the first request of a run, then the
\* request of another run, then a later request of the first run.
C11_Witness ==
  \E s1, s2, s3 \in sockets :
    /\ s1.run = s3.run
    /\ s1.tok < s3.tok
    /\ s2.run # s1.run
    /\ \A s \in {s1, s2, s3} : s.written # <<>>
    /\ \E t1 \in SettleTimerOf(s1), t2 \in SettleTimerOf(s2), t3 \in SettleTimerOf(s3) :
         t1.remaining < t2.remaining /\ t2.remaining < t3.remaining

\* C12: there is no timeout.  As long as the connection attempt of a command
\* has neither connected nor reported an error, however much time passes and
\* whatever the other runs do, no timer is armed for the token, its promise
\* is pending, the run has no outcome and no later token is started.
C12_NoConnectTimeout ==
  \A s \in sockets :
    s.state = "connecting" =>
      /\ TimersOf(State, s.run, s.tok) = {}
      /\ runs[s.run].promise[s.tok] = "pending"
      /\ runs[s.run].outcomes = <<>>
      /\ Len(runs[s.run].started) = s.tok
      /\ \A i \in (s.tok + 1)..Len(runs[s.run].keys) :
           /\ runs[s.run].promise[i] = "none"
           /\ TimersOf(State, s.run, i) \cup SocketsOf(State, s.run, i) = {}
      /\ s.written = <<>>
      /\ ~s.ended

\* A connection attempt with a token after it is still pending although a
\* run that was called later has run its timers out and succeeded.
C12_Witness ==
  \E s \in sockets :
    /\ s.state = "connecting"
    /\ Len(runs[s.run].keys) > s.tok
    /\ \E r \in (s.run + 1)..Len(runs) :
         Succeeded(r) /\ \E t \in timers : t.run = r /\ t.fired

\* What there is of run r in st, with the position of the run left out.
SliceOf(st, r) ==
  [run |-> st.runs[r],
   timers |-> {[t EXCEPT !.run = 0] : t \in {u \in st.timers : u.run = r}},
   sockets |-> {[s EXCEPT !.run = 0] : s \in {u \in st.sockets : u.run = r}}]

\* The dispatcher as constructed, before any call.
Fresh ==
  [runs |-> <<>>, timers |-> {}, sockets |-> {},
   states |-> [Active |-> FALSE, ActiveIdentifier |-> 0], requests |-> <<>>]

\* The commands among the tokens of run r.
SendsOf(r) == {i \in 1..Len(runs[r].keys) : ~IsDelayKey(runs[r].keys[i])}

\* C13: no state is carried between invocations.  A call of sendCommands
\* made after any earlier runs begins exactly as the same call made first
\* would and leaves the earlier runs as they are; and a run that has
\* succeeded has given the daemon each of its commands once, whatever ran
\* before it, so that a list of n commands carried out twice makes 2n
\* requests.
C13_NoStateBetweenRuns ==
  /\ [][Len(runs') = Len(runs) + 1 =>
          LET r == Len(runs')
              after == [runs |-> runs', timers |-> timers', sockets |-> sockets',
                        states |-> states', requests |-> requests']
          IN /\ SliceOf(after, r) = SliceOf(sendCommands(Fresh, runs'[r].keys), 1)
             /\ \A q \in 1..Len(runs) : SliceOf(after, q) = SliceOf(State, q)]_vars
  /\ [](\A r \in 1..Len(runs) :
          Succeeded(r) =>
            /\ Cardinality(WrittenOf(r)) = Cardinality(SendsOf(r))
            /\ \A i \in SendsOf(r) :
                 \E s \in SocketsOf(State, r, i) : Len(s.written) = 1)

\* A list with a command in it was carried out twice with success, and the
\* daemon was given its commands twice.
C13_Witness ==
  \E p, q \in 1..Len(runs) :
    /\ p < q
    /\ runs[p].keys = runs[q].keys
    /\ SendsOf(p) # {}
    /\ Succeeded(p)
    /\ Succeeded(q)
    /\ Cardinality(WrittenOf(p) \cup WrittenOf(q)) = 2 * Cardinality(SendsOf(p))

\* Run r is a list of delay directives and nothing else.
DelayOnly(r) ==
  /\ r \in DOMAIN runs
  /\ runs[r].keys # <<>>
  /\ \A i \in 1..Len(runs[r].keys) : IsDelayKey(runs[r].keys[i])

\* C14: delay directives cannot fail.  A run of delay directives only makes
\* no socket, rejects no promise and never fails, and it ends in success,
\* whatever text follows the prefix (a number or not) and whatever happens
\* to the connections of other runs.
C14_DelayOnlySucceeds ==
  /\ \A r \in 1..MaxFairPromises : [](DelayOnly(r) => <>Succeeded(r))
  /\ [](\A r \in 1..Len(runs) :
          DelayOnly(r) =>
            /\ ~Failed(r)
            /\ \A s \in sockets : s.run # r
            /\ \A i \in 1..Len(runs[r].keys) : runs[r].promise[i] # "rejected")

\* A run of a delay directive whose text is no number has succeeded while a
\* connection to the daemon failed.
C14_Witness ==
  \E r \in 1..Len(runs) :
    /\ DelayOnly(r)
    /\ \E i \in 1..Len(runs[r].keys) : DelayTimeouts[runs[r].keys[i]].nan
    /\ Succeeded(r)
    /\ \E s \in sockets : s.state = "errored"

\* The text read as a base-10 integer: white space, a sign, and the longest
\* run of decimal digits; no number when there is no digit.
Base10(str) ==
  LET s0 == SkipWhiteSpace(str)
      neg == s0 # <<>> /\ Head(s0) = "-"
      s1 == IF s0 # <<>> /\ Head(s0) \in {"+", "-"} THEN Tail(s0) ELSE s0
      got == ReadDigits(s1, 10, 0, 0)
  IN IF got.digits = 0 THEN NaN
     ELSE Num(IF neg THEN 0 - got.val ELSE got.val)

\* The key begins with the six characters DELAY|.
HasDelayPrefix(key) ==
  Len(key) >= 6 /\ SubSeq(key, 1, 6) = <<"D", "E", "L", "A", "Y", "|">>

\* C15: a token is treated as a delay (a timer at the delay site and no
\* socket) if and only if it begins with DELAY|, any other token is sent
\* (a socket, and no timer at the delay site), and the time the delay timer
\* is armed with is the base-10 integer value of the text after the prefix.
C15_TokenClassification ==
  \A r \in 1..Len(runs) :
    \A i \in Started(r) :
      LET key == runs[r].keys[i]
          delays == {t \in TimersOf(State, r, i) : t.site = "delay"}
      IN /\ HasDelayPrefix(key) <=> (delays # {})
         /\ ~HasDelayPrefix(key) <=> (SocketsOf(State, r, i) # {})
         /\ \A t \in delays : t.after = Base10(SubSeq(key, 7, Len(key)))

\* The half of C15 that the code meets on every token: the classification.
C15_ClassifiedByPrefix ==
  \A r \in 1..Len(runs) :
    \A i \in Started(r) :
      LET key == runs[r].keys[i]
          delays == {t \in TimersOf(State, r, i) : t.site = "delay"}
      IN /\ HasDelayPrefix(key) <=> (delays # {})
         /\ ~HasDelayPrefix(key) <=> (SocketsOf(State, r, i) # {})

\* C16: what is written on a socket is one request and nothing else:
\* SEND_ONCE, a space, the remote, a space, the key, carriage return and
\* line feed.
C16_RequestText ==
  \A s \in sockets :
    /\ Len(s.written) <= 1
    /\ s.state # "connecting" /\ s.errPhase # "connecting" =>
         s.written =
           << <<"S", "E", "N", "D", "_", "O", "N", "C", "E">> \o <<" ">> \o remote
                \o <<" ">> \o runs[s.run].keys[s.tok] \o <<"\r", "\n">> >>

\* The request of a key that holds DELAY| but does not begin with it has been
\* written for a remote whose name differs from the key.
C16_Witness ==
  \E s \in sockets :
    /\ s.written # <<>>
    /\ Len(runs[s.run].keys[s.tok]) > 6
    /\ remote # runs[s.run].keys[s.tok]
    /\ s.state = "flushed"

\* C17: every SET request gets its callback once and no more: no callback
\* while its run is under way, one callback with no error when the run has
\* succeeded, one callback with the error of the run when it has failed.
C17_CallbackOnce ==
  \A q \in 1..Len(requests) :
    LET req == requests[q]
    IN /\ Len(req.callbacks) <= 1
       /\ req.run # 0 =>
            /\ runs[req.run].outcomes = <<>> => req.callbacks = <<>>
            /\ Succeeded(req.run) => req.callbacks = <<NoError>>
            /\ Failed(req.run) => req.callbacks = <<runs[req.run].outcomes[1].error>>

\* C17 of the handlers of part_001 alone, which meet it.
C17_CallbackOncePart001 == build = "part_001" => C17_CallbackOnce

\* Run r ends in success in this step.
SucceedsNow(r) ==
  /\ r \in 1..Len(runs')
  /\ r \in 1..Len(runs) => runs[r].outcomes = <<>>
  /\ runs'[r].outcomes # <<>>
  /\ runs'[r].outcomes[1].result = "success"

\* C18: the recorded state changes only in a step in which the run of a
\* setActive or setActiveIdentifier request ends in success, and to that
\* request's value, nothing else of it changing; such a step always leaves
\* the request's value recorded; a run that fails changes nothing.  So
\* getActive gives true only after a setActive(true) whose run succeeded.
C18_StateFollowsSuccess ==
  /\ [][states' # states =>
          \E q \in 1..Len(requests') :
            /\ requests'[q].run # 0
            /\ SucceedsNow(requests'[q].run)
            /\ \/ /\ requests'[q].handler = "setActive"
                  /\ states' = [states EXCEPT !.Active = requests'[q].value]
               \/ /\ requests'[q].handler = "setActiveIdentifier"
                  /\ states' = [states EXCEPT !.ActiveIdentifier = requests'[q].value]]_vars
  /\ [][\A q \in 1..Len(requests') :
          requests'[q].run # 0 /\ SucceedsNow(requests'[q].run) =>
            /\ requests'[q].handler = "setActive" =>
                 states'.Active = requests'[q].value
            /\ requests'[q].handler = "setActiveIdentifier" =>
                 states'.ActiveIdentifier = requests'[q].value]_vars
  /\ [](getActive(State) =>
          \E q \in 1..Len(requests) :
            /\ requests[q].handler = "setActive"
            /\ requests[q].value
            /\ Succeeded(requests[q].run))

\* The run of a setActive(true) request has succeeded and getActive gives
\* true.
C18_Witness ==
  /\ getActive(State)
  /\ \E q \in 1..Len(requests) :
       /\ requests[q].handler = "setActive"
       /\ Succeeded(requests[q].run)
       /\ \E s \in sockets : s.run = requests[q].run /\ s.written # <<>>

ConfiguredFor(type) ==
  {k \in 1..Len(device.remoteKeys) : device.remoteKeys[k].type = type}

\* C20: a RemoteKey request of a value with no configured command list gets
\* its callback at once, with an error, and starts nothing: the step that
\* takes the request leaves runs, timers and sockets as they were.  A request of a configured value starts a run of the list configured
\* for that value.  No run is there but the runs the requests started.
C20_RemoteKey ==
  /\ [](\A q \in 1..Len(requests) :
          requests[q].handler = "setRemoteKey" =>
            IF ConfiguredFor(requests[q].value) = {}
            THEN /\ requests[q].run = 0
                 /\ Len(requests[q].callbacks) = 1
                 /\ requests[q].callbacks[1] # NoError
            ELSE /\ requests[q].run \in 1..Len(runs)
                 /\ \E k \in ConfiguredFor(requests[q].value) :
                      runs[requests[q].run].keys = device.remoteKeys[k].command
                 /\ runs[requests[q].run].started # <<>>)
  /\ [](Len(runs) = Cardinality({q \in 1..Len(requests) : requests[q].run # 0}))
  /\ [][\A q \in 1..Len(requests') :
          /\ q > Len(requests)
          /\ requests'[q].handler = "setRemoteKey"
          /\ ConfiguredFor(requests'[q].value) = {}
          => /\ runs' = runs
             /\ timers' = timers
             /\ sockets' = sockets
             /\ states' = states]_vars

\* A RemoteKey request of a value the device does not configure has been
\* answered with the error, and there is no run, timer or socket.
C20_Witness ==
  \E q \in 1..Len(requests) :
    /\ requests[q].handler = "setRemoteKey"
    /\ ConfiguredFor(requests[q].value) = {}
    /\ requests[q].callbacks = <<NotConfigured>>
    /\ runs = <<>>
    /\ timers = {}
    /\ sockets = {}

====
